---- MODULE Spec2Model ----
(***************************************************************************)
(* Model of contrib/ovirt/lib/ovirttestenv/__init__.py: the activation     *)
(* state controller (the _activate and _deactivate helpers), the snapshot  *)
(* transaction OvirtPrefix.create_snapshots, the lifecycle entry points    *)
(* start, stop and revert_snapshots, and the job batches of deploy,        *)
(* collect_artifacts and prepare_repo.                                     *)
(*                                                                         *)
(* The remote engine (ovirtsdk API) is the environment: a request is       *)
(* either rejected (RequestError, no state change) or accepted, which puts *)
(* the entity in a transitional state ("activating" / "deactivating", the  *)
(* spec's 'transitioning'); the engine completes the transition later, on  *)
(* its own (EnvConvergeSd, EnvConvergeHost).  A convergence poll is a      *)
(* bounded loop of reads of the observed state.                            *)
(***************************************************************************)
EXTENDS Integers, Sequences, FiniteSets, TLC

\* ---------------------------------------------------------------- bounds
NumDCs == 2
NumNonMasters == 2
NumHosts == 2
MaxPolls == 1
MaxRejects == 1

\* rejectsLeft of a host whose deactivation the engine rejects every time
Forever == MaxRejects + 1

DCs == 1..NumDCs
Hosts == 1..NumHosts
SDs == DCs \X (1..(NumNonMasters + 1))

\* sd.master: the first domain a data center lists is its master
IsMaster(sd) == sd[2] = 1

\* dc.storagedomains.list()
SdList(dc) == [k \in 1..(NumNonMasters + 1) |-> <<dc, k>>]

\* api.hosts.list()
HostList == [h \in 1..NumHosts |-> h]

VARIABLES
    op,          \* the entry point called and its arguments
    pc,          \* position of the calling thread
    unwinding,   \* RollbackContext.__exit__ has started
    exc,         \* the exception that propagates to the caller ("none" if none)
    undoFailed,  \* some compensating action raised during the unwind
    rollback,    \* RollbackContext._finally, head is run first
    sdState,     \* storage domain -> status.state
    hostState,   \* host -> status.state
    engineSvc,   \* ovirt-engine service running on the engine vm
    vdsmd,       \* host -> vdsmd running
    supervdsmd,  \* host -> supervdsmd running
    vmsUp,       \* the virtual machines of the prefix are powered on
    dcIdx,       \* loop variable: index in api.datacenters.list()
    pass,        \* 1 or 2: which of the two group calls of the loop body
    i,           \* loop variable: index in the list being iterated
    polls,       \* reads already made by the current assert_true_within_*
    queue,       \* _deactivate_all_hosts: the local list `hosts`
    rejectsLeft, \* host -> deactivate requests the engine will still reject
    wpc,         \* host -> position of its stop_host worker thread
    captured,    \* number of disk snapshot captures performed
    undoRuns,    \* number of compensating actions started by the unwind
    sdReqd,      \* <<kind, sd>> requests issued to storage domains (accepted or not)
    sdPolled,    \* <<kind, sd>> convergence polls started on storage domains
    sdRejected,  \* a storage domain request raised RequestError
    actReqs,     \* host -> activate requests issued by _activate_all_hosts
    actRejected, \* hosts whose activate request raised RequestError
    deactAcc,    \* host -> deactivate requests accepted in _deactivate_all_hosts
    returned,    \* functions that returned normally
    pre,         \* the environment state when the entry point was called
    jobs,        \* the list given to VectorThread by deploy / prepare_repo
    jst,         \* job index -> state of the thread running that job
    metadata,    \* keys set in the prefix metadata by prepare_repo
    tried,       \* hosts _deactivate_all_hosts has sent a request to
    attempts     \* requests _deactivate_all_hosts has sent, counted up to NumHosts

envVars == <<sdState, hostState, engineSvc, vdsmd, supervdsmd>>
loopVars == <<dcIdx, pass, i, polls, queue>>
excVars == <<unwinding, exc, undoFailed>>
batchVars == <<jobs, jst, metadata>>
tryVars == <<tried, attempts>>
obsVars == <<captured, undoRuns, sdReqd, sdPolled, sdRejected, actReqs,
             actRejected, deactAcc, returned>>
vars == <<op, pc, unwinding, exc, undoFailed, rollback, sdState, hostState,
          engineSvc, vdsmd, supervdsmd, vmsUp, dcIdx, pass, i, polls, queue,
          rejectsLeft, wpc, captured, undoRuns, sdReqd, sdPolled, sdRejected,
          actReqs, actRejected, deactAcc, returned, pre, jobs, jst,
          metadata, tried, attempts>>

EnvState == [sd |-> sdState, host |-> hostState, engine |-> engineSvc,
             vdsmd |-> vdsmd, supervdsmd |-> supervdsmd]

\* the environment is fully running
Running ==
    /\ \A s \in SDs : sdState[s] = "active"
    /\ \A h \in Hosts : hostState[h] = "up"
    /\ engineSvc
    /\ \A h \in Hosts : vdsmd[h] /\ supervdsmd[h]

\* the environment is quiesced
Quiesced ==
    /\ \A s \in SDs : sdState[s] = "maintenance"
    /\ \A h \in Hosts : hostState[h] = "maintenance"
    /\ ~engineSvc
    /\ \A h \in Hosts : ~vdsmd[h] /\ ~supervdsmd[h]

\* ------------------------------------------------------------- the engine
\* the state an accepted request moves an entity to
Accepted(state, target, transitional) ==
    IF state = target THEN target ELSE transitional

\* the remote engine completes a storage domain transition it has accepted
EnvConvergeSd ==
    /\ \E s \in SDs :
          /\ sdState[s] \in {"activating", "deactivating"}
          /\ sdState' = [sdState EXCEPT ![s] =
                 IF @ = "activating" THEN "active" ELSE "maintenance"]
    /\ UNCHANGED <<op, batchVars, tryVars,
                   vmsUp, pc, excVars, rollback, hostState, engineSvc, vdsmd,
                   supervdsmd, loopVars, rejectsLeft, wpc, obsVars, pre>>

\* the remote engine completes a host transition it has accepted
EnvConvergeHost ==
    /\ \E h \in Hosts :
          /\ hostState[h] \in {"activating", "deactivating"}
          /\ hostState' = [hostState EXCEPT ![h] =
                 IF @ = "activating" THEN "up" ELSE "maintenance"]
    /\ UNCHANGED <<op, batchVars, tryVars,
                   vmsUp, pc, excVars, rollback, sdState, engineSvc, vdsmd,
                   supervdsmd, loopVars, rejectsLeft, wpc, obsVars, pre>>

\* ------------------------------------------------------ exceptions, unwind
\* RollbackContext.prependDefer
PrependDefer(stack, undo) == <<undo>> \o stack

\* create_snapshots is the entry point that runs inside a RollbackContext
InRollbackContext == op.name = "create_snapshots"

\* an exception leaves the current function of the calling thread: inside a
\* compensating action it is recorded and the unwind goes on with the next
\* one; inside the `with` block it starts the unwind; elsewhere it reaches
\* the caller of the entry point at once
Raise(e) ==
    IF unwinding
    THEN /\ undoFailed' = TRUE
         /\ pc' = "unwind"
         /\ UNCHANGED <<exc, unwinding>>
    ELSE /\ exc' = e
         /\ unwinding' = InRollbackContext
         /\ pc' = IF InRollbackContext THEN "unwind" ELSE "done"
         /\ UNCHANGED undoFailed

Undo(fn, h) == [fn |-> fn, h |-> h]

\* successive prependDefer calls, one per element of undos
RECURSIVE PrependAll(_, _)
PrependAll(stack, undos) ==
    IF undos = <<>> THEN stack
    ELSE PrependAll(PrependDefer(stack, Head(undos)), Tail(undos))


\* a bug: the masters are deactivated before the non-masters
DeactGroupMastersFirst(dc, p) ==
    IF p = 1 THEN SelectSeq(SdList(dc), LAMBDA s : IsMaster(s))
             ELSE SelectSeq(SdList(dc), LAMBDA s : ~IsMaster(s))

\* ------------------------------------------------- storage domain groups
\* the two calls of the body of _deactivate_all_storage_domains: the
\* non-masters of the data center, then its masters
DeactGroup(dc, p) ==
    IF p = 1 THEN SelectSeq(SdList(dc), LAMBDA s : ~IsMaster(s))
             ELSE SelectSeq(SdList(dc), LAMBDA s : IsMaster(s))

\* a bug: the second call activates the masters again, not the non-masters
ActGroupMastersOnly(dc, p) == SelectSeq(SdList(dc), LAMBDA s : IsMaster(s))

\* the two calls of the body of _activate_all_storage_domains: the masters
\* of the data center, then its non-masters
ActGroup(dc, p) ==
    IF p = 1 THEN SelectSeq(SdList(dc), LAMBDA s : IsMaster(s))
             ELSE SelectSeq(SdList(dc), LAMBDA s : ~IsMaster(s))

\* a bug: the request is wrapped in try/except RequestError: pass
SdRequestErrorSwallowed == FALSE

\* sd.activate() / sd.deactivate() are called outside any try block: a
\* RequestError leaves the function
SdRequestErrorPropagates == TRUE

\* the request loop of _activate_storage_domains / _deactivate_storage_domains
SdRequestLoop(kind, g, target, transitional, pcPoll) ==
    IF i <= Len(g)
    THEN /\ sdReqd' = sdReqd \cup {<<kind, g[i]>>}
         /\ \/ /\ sdState' = [sdState EXCEPT ![g[i]] =
                                  Accepted(@, target, transitional)]
               /\ i' = i + 1
               /\ UNCHANGED <<pc, excVars, sdRejected>>
            \/ /\ sdRejected' = TRUE
               /\ IF SdRequestErrorPropagates
                  THEN Raise("RequestError") /\ UNCHANGED i
                  ELSE i' = i + 1 /\ UNCHANGED <<pc, excVars>>
               /\ UNCHANGED sdState
         /\ UNCHANGED polls
    ELSE /\ pc' = pcPoll
         /\ i' = 1
         /\ polls' = 0
         /\ UNCHANGED <<sdState, excVars, sdRejected, sdReqd>>

\* testlib.assert_true_within_short / _long on an observed state: a read
\* that sees the target ends the wait, another one is made while the bound
\* allows, and the wait fails when it does not
PollOutcome(state, target) ==
    IF state = target THEN "reached"
    ELSE IF polls < MaxPolls THEN "again" ELSE "timeout"

\* a bug: the assertion failure of a poll is caught and the loop goes on
PollResultSwallowed(state, target) ==
    IF PollOutcome(state, target) = "timeout" THEN "reached"
                                              ELSE PollOutcome(state, target)

\* the assert_true_within_* calls stand outside any try (lines 147-152,
\* 160-164, 187-190, 203-205): what the poll raises leaves the loop
PollResult(state, target) == PollOutcome(state, target)

\* _deactivate_storage_domains, lines 156-157
SdDeactivateRequest ==
    /\ pc = "sd_deact_req"
    /\ SdRequestLoop("deactivate", DeactGroup(dcIdx, pass), "maintenance",
                     "deactivating", "sd_deact_poll")
    /\ UNCHANGED <<op, batchVars, tryVars,
                   vmsUp, rollback, hostState, engineSvc, vdsmd, supervdsmd,
                   dcIdx, pass, queue, rejectsLeft, wpc, captured, undoRuns,
                   sdPolled, actReqs, actRejected, deactAcc, returned, pre>>

\* _activate_storage_domains, lines 143-144
SdActivateRequest ==
    /\ pc = "sd_act_req"
    /\ SdRequestLoop("activate", ActGroup(dcIdx, pass), "active",
                     "activating", "sd_act_poll")
    /\ UNCHANGED <<op, batchVars, tryVars,
                   vmsUp, rollback, hostState, engineSvc, vdsmd, supervdsmd,
                   dcIdx, pass, queue, rejectsLeft, wpc, captured, undoRuns,
                   sdPolled, actReqs, actRejected, deactAcc, returned, pre>>

\* the poll loop of _deactivate_storage_domains (lines 159-164) and, when it
\* ends, the rest of the loops of _deactivate_all_storage_domains; after the
\* last data center _deactivate goes on with _deactivate_all_hosts, whose
\* first statement is hosts = api.hosts.list()
SdDeactivatePoll ==
    /\ pc = "sd_deact_poll"
    /\ LET g == DeactGroup(dcIdx, pass) IN
       IF i <= Len(g)
       THEN LET out == PollResult(sdState[g[i]], "maintenance") IN
            /\ sdPolled' = sdPolled \cup {<<"deactivate", g[i]>>}
            /\ i' = IF out = "reached" THEN i + 1 ELSE i
            /\ polls' = IF out = "again" THEN polls + 1 ELSE 0
            /\ IF out = "timeout" THEN Raise("AssertionError")
                                  ELSE UNCHANGED <<pc, excVars>>
            /\ UNCHANGED <<dcIdx, pass, queue, returned>>
       ELSE /\ i' = 1
            /\ polls' = 0
            /\ IF pass = 1
               THEN /\ pass' = 2
                    /\ pc' = "sd_deact_req"
                    /\ UNCHANGED <<dcIdx, queue, returned>>
               ELSE IF dcIdx < NumDCs
               THEN /\ dcIdx' = dcIdx + 1
                    /\ pass' = 1
                    /\ pc' = "sd_deact_req"
                    /\ UNCHANGED <<queue, returned>>
               ELSE /\ returned' = returned \cup {"_deactivate_all_storage_domains"}
                    /\ queue' = HostList
                    /\ pc' = "host_deact_req"
                    /\ UNCHANGED <<dcIdx, pass>>
            /\ UNCHANGED <<excVars, sdPolled>>
    /\ UNCHANGED <<op, batchVars, tryVars,
                   vmsUp, rollback, envVars, rejectsLeft, wpc, captured, undoRuns,
                   sdReqd, sdRejected, actReqs, actRejected, deactAcc, pre>>

\* where the thread goes when _activate returns: back into the unwind when
\* it runs as a compensating action, else to the caller of the entry point
AfterActivate == IF unwinding THEN "unwind" ELSE "done"

\* the poll loop of _activate_storage_domains (lines 146-152) and, when it
\* ends, the rest of the loops of _activate_all_storage_domains, whose
\* return is the return of _activate
SdActivatePoll ==
    /\ pc = "sd_act_poll"
    /\ LET g == ActGroup(dcIdx, pass) IN
       IF i <= Len(g)
       THEN LET out == PollResult(sdState[g[i]], "active") IN
            /\ sdPolled' = sdPolled \cup {<<"activate", g[i]>>}
            /\ i' = IF out = "reached" THEN i + 1 ELSE i
            /\ polls' = IF out = "again" THEN polls + 1 ELSE 0
            /\ IF out = "timeout" THEN Raise("AssertionError")
                                  ELSE UNCHANGED <<pc, excVars>>
            /\ UNCHANGED <<dcIdx, pass, returned>>
       ELSE /\ i' = 1
            /\ polls' = 0
            /\ IF pass = 1
               THEN /\ pass' = 2
                    /\ pc' = "sd_act_req"
                    /\ UNCHANGED <<dcIdx, returned>>
               ELSE IF dcIdx < NumDCs
               THEN /\ dcIdx' = dcIdx + 1
                    /\ pass' = 1
                    /\ pc' = "sd_act_req"
                    /\ UNCHANGED returned
               ELSE /\ returned' = returned \cup {"_activate_all_storage_domains"}
                    /\ pc' = AfterActivate
                    /\ UNCHANGED <<dcIdx, pass>>
            /\ UNCHANGED <<excVars, sdPolled>>
    /\ UNCHANGED <<op, batchVars, tryVars,
                   vmsUp, rollback, envVars, queue, rejectsLeft, wpc, captured,
                   undoRuns, sdReqd, sdRejected, actReqs, actRejected,
                   deactAcc, pre>>

\* a bug: a rejected host is not put back in the list
RequeueDropped(rest, host) == rest

\* a bug: a rejected host goes to the back of the list, where pop() takes
\* it again at once
RequeueBack(rest, host) == rest \o <<host>>

\* ------------------------------------------------------------------ hosts
\* hosts.insert(0, host): a rejected host goes back to the front of the
\* list, which pop() empties from the back
Requeue(rest, host) == <<host>> \o rest

\* a bug: the convergence of no host is waited for
DeactPollListEmpty == <<>>

\* the hosts whose convergence _deactivate_all_hosts waits for: a fresh
\* api.hosts.list()
DeactPollList == HostList

\* the while loop of _deactivate_all_hosts, lines 177-184
HostDeactivateRequest ==
    /\ pc = "host_deact_req"
    /\ IF queue /= <<>>
       THEN LET host == queue[Len(queue)]
                rest == SubSeq(queue, 1, Len(queue) - 1) IN
            /\ \/ /\ rejectsLeft[host] /= Forever
                  /\ hostState' = [hostState EXCEPT ![host] =
                         Accepted(@, "maintenance", "deactivating")]
                  /\ deactAcc' = [deactAcc EXCEPT ![host] = @ + 1]
                  /\ queue' = rest
                  /\ UNCHANGED rejectsLeft
               \/ /\ rejectsLeft[host] > 0
                  /\ rejectsLeft' = [rejectsLeft EXCEPT ![host] =
                         IF @ = Forever THEN @ ELSE @ - 1]
                  /\ queue' = Requeue(rest, host)
                  /\ UNCHANGED <<hostState, deactAcc>>
            /\ tried' = tried \cup {host}
            /\ attempts' = IF attempts < NumHosts THEN attempts + 1
                                                  ELSE attempts
            /\ UNCHANGED <<pc, i, polls>>
       ELSE /\ pc' = "host_deact_poll"
            /\ i' = 1
            /\ polls' = 0
            \* no deactivate request follows the loop: what the engine would
            \* still have rejected is forgotten
            /\ rejectsLeft' = [h \in Hosts |-> 0]
            /\ UNCHANGED <<hostState, deactAcc, queue, tryVars>>
    /\ UNCHANGED <<op, batchVars,
                   vmsUp, excVars, rollback, sdState, engineSvc, vdsmd,
                   supervdsmd, dcIdx, pass, wpc, captured, undoRuns, sdReqd,
                   sdPolled, sdRejected, actReqs, actRejected, returned, pre>>

\* where the thread goes when _deactivate returns
AfterDeactivate ==
    IF InRollbackContext THEN "engine_stop"
    ELSE IF op.name = "stop" THEN "parent_stop" ELSE "done"

\* the poll loop of _deactivate_all_hosts, lines 186-190; its end is the
\* return of _deactivate, after which create_snapshots registers _activate
\* (line 224)
HostDeactivatePoll ==
    /\ pc = "host_deact_poll"
    /\ IF i <= Len(DeactPollList)
       THEN LET out == PollResult(hostState[DeactPollList[i]], "maintenance") IN
            /\ i' = IF out = "reached" THEN i + 1 ELSE i
            /\ polls' = IF out = "again" THEN polls + 1 ELSE 0
            /\ IF out = "timeout" THEN Raise("AssertionError")
                                  ELSE UNCHANGED <<pc, excVars>>
            /\ UNCHANGED <<returned, rollback>>
       ELSE /\ returned' = returned \cup {"_deactivate_all_hosts"}
            /\ rollback' = IF InRollbackContext
                           THEN PrependDefer(rollback, Undo("_activate", 0))
                           ELSE rollback
            /\ pc' = AfterDeactivate
            /\ UNCHANGED <<i, polls, excVars>>
    /\ UNCHANGED <<op, batchVars, tryVars,
                   vmsUp, envVars, dcIdx, pass, queue, rejectsLeft, wpc, captured,
                   undoRuns, sdReqd, sdPolled, sdRejected, actReqs,
                   actRejected, deactAcc, pre>>

\* a bug: the rejected activate request is tried again
AfterActivateRejectedRetry(k) == k

\* the index of the name tried after a rejected activate request: the
\* except clause passes, the for loop goes on
AfterActivateRejected(k) == k + 1

\* the request loop of _activate_all_hosts, lines 194-200
HostActivateRequest ==
    /\ pc = "host_act_req"
    /\ IF i <= Len(HostList)
       THEN LET h == HostList[i] IN
            /\ actReqs' = [actReqs EXCEPT ![h] = @ + 1]
            /\ \/ /\ hostState' = [hostState EXCEPT ![h] =
                         Accepted(@, "up", "activating")]
                  /\ i' = i + 1
                  /\ UNCHANGED actRejected
               \/ /\ actRejected' = actRejected \cup {h}
                  /\ i' = AfterActivateRejected(i)
                  /\ UNCHANGED hostState
            /\ UNCHANGED <<pc, polls>>
       ELSE /\ pc' = "host_act_poll"
            /\ i' = 1
            /\ polls' = 0
            /\ UNCHANGED <<hostState, actReqs, actRejected>>
    /\ UNCHANGED <<op, batchVars, tryVars,
                   vmsUp, excVars, rollback, sdState, engineSvc, vdsmd,
                   supervdsmd, dcIdx, pass, queue, rejectsLeft, wpc, captured,
                   undoRuns, sdReqd, sdPolled, sdRejected, deactAcc, returned,
                   pre>>

\* the poll loop of _activate_all_hosts, lines 202-205; _activate goes on
\* with _activate_all_storage_domains
HostActivatePoll ==
    /\ pc = "host_act_poll"
    /\ IF i <= Len(HostList)
       THEN LET out == PollResult(hostState[HostList[i]], "up") IN
            /\ i' = IF out = "reached" THEN i + 1 ELSE i
            /\ polls' = IF out = "again" THEN polls + 1 ELSE 0
            /\ IF out = "timeout" THEN Raise("AssertionError")
                                  ELSE UNCHANGED <<pc, excVars>>
            /\ UNCHANGED <<returned, dcIdx, pass>>
       ELSE /\ returned' = returned \cup {"_activate_all_hosts"}
            /\ pc' = "sd_act_req"
            /\ dcIdx' = 1
            /\ pass' = 1
            /\ i' = 1
            /\ polls' = 0
            /\ UNCHANGED excVars
    /\ UNCHANGED <<op, batchVars, tryVars,
                   vmsUp, rollback, envVars, queue, rejectsLeft, wpc, captured,
                   undoRuns, sdReqd, sdPolled, sdRejected, actReqs,
                   actRejected, deactAcc, pre>>

\* _activate, lines 433-434: wait_for_ssh on every vm
WaitForSsh ==
    /\ pc = "wait_ssh"
    /\ \/ pc' = "get_api" /\ UNCHANGED excVars
       \/ Raise("RuntimeError")
    /\ UNCHANGED <<op, batchVars, tryVars,
                   vmsUp, rollback, envVars, loopVars, rejectsLeft, wpc, obsVars,
                   pre>>

\* engine_vm().get_api() connects to the API served by the ovirt-engine
\* service: it can return the api only while that service runs
ApiReachable == engineSvc

\* a bug: _activate starts with the storage domains and skips the hosts
ActivateFirstSds == "sd_act_req"

\* _activate, line 437: the first call after get_api is _activate_all_hosts
ActivateFirst == "host_act_req"

\* _activate, line 436: engine_vm().get_api()
GetApi ==
    /\ pc = "get_api"
    /\ \/ ApiReachable /\ pc' = ActivateFirst /\ i' = 1 /\ UNCHANGED excVars
       \/ Raise("RuntimeError") /\ UNCHANGED i
    /\ UNCHANGED <<op, batchVars, tryVars,
                   vmsUp, rollback, envVars, dcIdx, pass, polls, queue,
                   rejectsLeft, wpc, obsVars, pre>>

\* --------------------------------------------------- snapshot transaction
\* create_snapshots, lines 220-223, and _deactivate, lines 443-445: the
\* rollback context is opened, get_api returns the api or raises, and
\* _deactivate_all_storage_domains is entered
CallCreateSnapshots ==
    /\ pc = "start"
    /\ op.name = "create_snapshots"
    /\ \/ /\ pc' = "sd_deact_req"
          /\ dcIdx' = 1
          /\ pass' = 1
          /\ i' = 1
          /\ UNCHANGED excVars
       \/ /\ Raise("ApiError")
          /\ UNCHANGED <<dcIdx, pass, i>>
    /\ UNCHANGED <<op, batchVars, tryVars,
                   vmsUp, rollback, envVars, polls, queue, rejectsLeft,
                   wpc, obsVars, pre>>

\* a bug: the two registrations are made in the other order
EngineStopDefersStartFirst == <<Undo("engine_start", 0), Undo("get_api", 0)>>

\* what create_snapshots registers once the engine service is stopped, in
\* the order of lines 229-230
EngineStopDefers == <<Undo("get_api", 0), Undo("engine_start", 0)>>

\* create_snapshots, lines 228-230: the engine service is stopped, then
\* get_api and the service start are registered
EngineStop ==
    /\ pc = "engine_stop"
    /\ \/ /\ engineSvc' = FALSE
          /\ rollback' = PrependAll(rollback, EngineStopDefers)
          /\ pc' = "start_all"
          /\ UNCHANGED excVars
       \/ /\ Raise("EngineStopError")
          /\ UNCHANGED <<engineSvc, rollback>>
    /\ UNCHANGED <<op, batchVars, tryVars,
                   vmsUp, sdState, hostState, vdsmd, supervdsmd, loopVars,
                   rejectsLeft, wpc, obsVars, pre>>

\* a bug: a stop_host job is made for the first host vm only
JobTargetsFirstOnly == {HostList[1]}

\* the argument list of func_vector, lines 241-242: every host vm
JobTargets == {HostList[k] : k \in 1..Len(HostList)}

\* create_snapshots, lines 240-245: one stop_host worker per job, all
\* started before join_all is called
StartAll ==
    /\ pc = "start_all"
    /\ wpc' = [h \in Hosts |-> IF h \in JobTargets THEN "stop_vdsmd"
                                                  ELSE "idle"]
    /\ pc' = "join_all"
    /\ UNCHANGED <<op, batchVars, tryVars,
                   vmsUp, excVars, rollback, envVars, loopVars, rejectsLeft,
                   obsVars, pre>>

\* what stop_host registers once vdsmd is stopped, line 235
VdsmdUndo(h) == Undo("vdsmd_start", h)

\* a step of the stop_host worker of host h, lines 233-238.  A call of
\* rollback.prependDefer takes two steps: the thread enters the method
\* ("push_..."), then the method inserts at the head of the shared list.
\* Threads are switched between any two steps.
StopHost(h) ==
    /\ pc = "join_all"
    /\ \/ /\ wpc[h] = "stop_vdsmd"
          /\ \/ /\ vdsmd' = [vdsmd EXCEPT ![h] = FALSE]
                /\ wpc' = [wpc EXCEPT ![h] = "defer_vdsmd"]
             \/ /\ wpc' = [wpc EXCEPT ![h] = "failed"]
                /\ UNCHANGED vdsmd
          /\ UNCHANGED <<supervdsmd, rollback>>
       \/ /\ wpc[h] = "defer_vdsmd"
          /\ wpc' = [wpc EXCEPT ![h] = "push_vdsmd"]
          /\ UNCHANGED <<vdsmd, supervdsmd, rollback>>
       \/ /\ wpc[h] = "push_vdsmd"
          /\ rollback' = PrependDefer(rollback, VdsmdUndo(h))
          /\ wpc' = [wpc EXCEPT ![h] = "stop_supervdsmd"]
          /\ UNCHANGED <<vdsmd, supervdsmd>>
       \/ /\ wpc[h] = "stop_supervdsmd"
          /\ \/ /\ supervdsmd' = [supervdsmd EXCEPT ![h] = FALSE]
                /\ wpc' = [wpc EXCEPT ![h] = "defer_supervdsmd"]
             \/ /\ wpc' = [wpc EXCEPT ![h] = "failed"]
                /\ UNCHANGED supervdsmd
          /\ UNCHANGED <<vdsmd, rollback>>
       \/ /\ wpc[h] = "defer_supervdsmd"
          /\ wpc' = [wpc EXCEPT ![h] = "push_supervdsmd"]
          /\ UNCHANGED <<vdsmd, supervdsmd, rollback>>
       \/ /\ wpc[h] = "push_supervdsmd"
          /\ rollback' = PrependDefer(rollback, Undo("supervdsmd_start", h))
          /\ wpc' = [wpc EXCEPT ![h] = "finished"]
          /\ UNCHANGED <<vdsmd, supervdsmd>>
    /\ UNCHANGED <<op, batchVars, tryVars,
                   vmsUp, pc, excVars, sdState, hostState, engineSvc, loopVars,
                   rejectsLeft, obsVars, pre>>

\* VectorThread.join_all, line 246: returns when every worker that was
\* started has ended and raises if one of them raised
JoinAll ==
    /\ pc = "join_all"
    /\ \A h \in Hosts : wpc[h] \in {"idle", "finished", "failed"}
    /\ IF \E h \in Hosts : wpc[h] = "failed"
       THEN Raise("JobError")
       ELSE pc' = "capture" /\ UNCHANGED excVars
    /\ wpc' = [h \in Hosts |-> IF wpc[h] = "idle" THEN "idle" ELSE "joined"]
    /\ UNCHANGED <<op, batchVars, tryVars,
                   vmsUp, rollback, envVars, loopVars, rejectsLeft, obsVars, pre>>

\* create_snapshots, line 248: the parent's disk snapshot capture
Capture ==
    /\ pc = "capture"
    /\ \/ /\ captured' = captured + 1
          /\ pc' = "after_capture"
          /\ UNCHANGED excVars
       \/ /\ Raise("CaptureError")
          /\ UNCHANGED captured
    /\ UNCHANGED <<op, batchVars, tryVars,
                   vmsUp, rollback, envVars, loopVars, rejectsLeft, wpc,
                   undoRuns, sdReqd, sdPolled, sdRejected, actReqs,
                   actRejected, deactAcc, returned, pre>>

\* a bug: the rollback stack is cleared whatever `restore` is
ClearsRollbackAlways(restore) == TRUE

\* a bug: the rollback stack is never cleared
ClearsRollbackNever(restore) == FALSE

\* `if not restore`, line 250
ClearsRollback(restore) == ~restore

\* create_snapshots, lines 250-251, and the normal exit of the with block
AfterCapture ==
    /\ pc = "after_capture"
    /\ rollback' = IF ClearsRollback(op.restore) THEN <<>> ELSE rollback
    /\ unwinding' = TRUE
    /\ pc' = "unwind"
    /\ UNCHANGED <<op, batchVars, tryVars,
                   vmsUp, exc, undoFailed, envVars, loopVars, rejectsLeft, wpc,
                   obsVars, pre>>

\* RollbackContext.__exit__: the registered actions are run from the head
\* of the list, each once, a failing one not stopping the next; _activate
\* is entered at its first statement
Unwind ==
    /\ pc = "unwind"
    /\ IF rollback = <<>>
       THEN /\ pc' = "done"
            /\ UNCHANGED <<rollback, undoRuns, undoFailed, engineSvc, vdsmd,
                           supervdsmd>>
       ELSE LET u == Head(rollback) IN
            /\ rollback' = Tail(rollback)
            /\ undoRuns' = undoRuns + 1
            /\ IF u.fn = "_activate"
               THEN /\ pc' = "wait_ssh"
                    /\ UNCHANGED <<undoFailed, engineSvc, vdsmd, supervdsmd>>
               ELSE /\ pc' = "unwind"
                    /\ \/ /\ u.fn = "get_api" => ApiReachable
                          /\ engineSvc' = IF u.fn = "engine_start"
                                          THEN TRUE ELSE engineSvc
                          /\ vdsmd' = IF u.fn = "vdsmd_start"
                                      THEN [vdsmd EXCEPT ![u.h] = TRUE]
                                      ELSE vdsmd
                          /\ supervdsmd' = IF u.fn = "supervdsmd_start"
                                           THEN [supervdsmd EXCEPT ![u.h] = TRUE]
                                           ELSE supervdsmd
                          /\ UNCHANGED undoFailed
                       \/ /\ undoFailed' = TRUE
                          /\ UNCHANGED <<engineSvc, vdsmd, supervdsmd>>
    /\ UNCHANGED <<op, batchVars, tryVars,
                   vmsUp, unwinding, exc, sdState, hostState, loopVars,
                   rejectsLeft, wpc, captured, sdReqd, sdPolled, sdRejected,
                   actReqs, actRejected, deactAcc, returned, pre>>

\* ------------------------------------------------------------ job batches
\* virt_env.get_vms().values(): the engine vm (0) and the host vms
VmList == [k \in 1..(NumHosts + 1) |-> k - 1]

\* a job of a VectorThread: the function, its target and the directory it
\* writes to ("none" if it writes to none)
Job(fn, arg, out) == [fn |-> fn, arg |-> arg, out |-> out]

\* deploy, lines 420-426: one _deploy_host job per vm, then start_all
DeployStartAll ==
    /\ pc = "start"
    /\ op.name = "deploy"
    /\ jobs' = [k \in 1..Len(VmList) |-> Job("_deploy_host", VmList[k], "none")]
    /\ jst' = [k \in 1..Len(VmList) |-> "running"]
    /\ pc' = "batch_join"
    /\ UNCHANGED <<op, metadata, tryVars, vmsUp, excVars, rollback, envVars,
                   loopVars, rejectsLeft, wpc, obsVars, pre>>

\* the thread of job k of deploy, _deploy_host, lines 406-416:
\* wait_for_ssh, then the scripts, the first non-zero status raising
DeployHost(k) ==
    /\ k \in 1..Len(jobs)
    /\ jobs[k].fn = "_deploy_host"
    /\ \/ /\ jst[k] = "running"
          /\ \E next \in {"scripts", "failed"} :
                jst' = [jst EXCEPT ![k] = next]
       \/ /\ jst[k] = "scripts"
          /\ \E next \in {"ok", "failed"} :
                jst' = [jst EXCEPT ![k] = next]
    /\ UNCHANGED <<op, jobs, metadata, tryVars, vmsUp, pc, excVars, rollback,
                   envVars, loopVars, rejectsLeft, wpc, obsVars, pre>>

\* collect_artifacts, lines 457-476: the output directory is made
\* (makedirs raises if it cannot), then one _collect_artifacts job per vm,
\* writing to output_dir/<vm name>, then start_all
CollectStartAll ==
    /\ pc = "start"
    /\ op.name = "collect_artifacts"
    /\ \/ /\ jobs' = [k \in 1..Len(VmList) |->
                        Job("_collect_artifacts", VmList[k],
                            <<"output_dir", VmList[k]>>)]
          /\ jst' = [k \in 1..Len(VmList) |-> "running"]
          /\ pc' = "batch_join"
          /\ UNCHANGED excVars
       \/ /\ Raise("OSError")
          /\ UNCHANGED <<jobs, jst>>
    /\ UNCHANGED <<op, metadata, tryVars, vmsUp, rollback, envVars, loopVars,
                   rejectsLeft, wpc, obsVars, pre>>

\* the thread of job k of collect_artifacts, _collect_artifacts, lines
\* 459-461: makedirs of the vm's directory, then vm.collect_artifacts,
\* either of which can raise
CollectArtifacts(k) ==
    /\ k \in 1..Len(jobs)
    /\ jobs[k].fn = "_collect_artifacts"
    /\ \/ /\ jst[k] = "running"
          /\ \E next \in {"collecting", "failed"} :
                jst' = [jst EXCEPT ![k] = next]
       \/ /\ jst[k] = "collecting"
          /\ \E next \in {"ok", "failed"} :
                jst' = [jst EXCEPT ![k] = next]
    /\ UNCHANGED <<op, jobs, metadata, tryVars, vmsUp, pc, excVars, rollback,
                   envVars, loopVars, rejectsLeft, wpc, obsVars, pre>>

\* where the thread goes when join_all returns
AfterJoin == IF op.name = "prepare_repo" THEN "merge" ELSE "done"

\* VectorThread.join_all, lines 366, 427 and 477: returns when every thread of
\* the batch has ended and raises if one of them raised
BatchJoinAll ==
    /\ pc = "batch_join"
    /\ \A k \in 1..Len(jobs) : jst[k] \in {"ok", "failed"}
    /\ IF \E k \in 1..Len(jobs) : jst[k] = "failed"
       THEN Raise("JobError")
       ELSE pc' = AfterJoin /\ UNCHANGED excVars
    /\ UNCHANGED <<op, batchVars, tryVars, vmsUp, rollback, envVars, loopVars,
                   rejectsLeft, wpc, obsVars, pre>>

\* ---------------------------------------------------------- specification
Ops == {[name |-> "create_snapshots", restore |-> r] : r \in BOOLEAN}
          \cup {[name |-> "deploy", restore |-> FALSE],
                [name |-> "collect_artifacts", restore |-> FALSE]}

\* a running environment: what _activate establishes
RunningEnv ==
    /\ sdState = [s \in SDs |-> "active"]
    /\ hostState = [h \in Hosts |-> "up"]
    /\ engineSvc = TRUE
    /\ vdsmd = [h \in Hosts |-> TRUE]
    /\ supervdsmd = [h \in Hosts |-> TRUE]
    /\ vmsUp = TRUE

\* the calling thread and the observations when an entry point is called
InitControl ==
    /\ pc = "start"
    /\ unwinding = FALSE
    /\ exc = "none"
    /\ undoFailed = FALSE
    /\ rollback = <<>>
    /\ dcIdx = 1
    /\ pass = 1
    /\ i = 1
    /\ polls = 0
    /\ queue = <<>>
    /\ wpc = [h \in Hosts |-> "idle"]
    /\ captured = 0
    /\ undoRuns = 0
    /\ sdReqd = {}
    /\ sdPolled = {}
    /\ sdRejected = FALSE
    /\ actReqs = [h \in Hosts |-> 0]
    /\ actRejected = {}
    /\ deactAcc = [h \in Hosts |-> 0]
    /\ returned = {}
    /\ pre = EnvState
    /\ jobs = <<>>
    /\ jst = <<>>
    /\ metadata = {}
    /\ tried = {}
    /\ attempts = 0

\* the state in which an entry point is called on a running environment
InitRunning ==
    /\ RunningEnv
    /\ rejectsLeft = [h \in Hosts |-> MaxRejects]
    /\ InitControl

Init ==
    /\ op \in Ops
    /\ InitRunning

Next ==
    \/ CallCreateSnapshots
    \/ SdDeactivateRequest
    \/ SdDeactivatePoll
    \/ HostDeactivateRequest
    \/ HostDeactivatePoll
    \/ EngineStop
    \/ StartAll
    \/ \E h \in Hosts : StopHost(h)
    \/ JoinAll
    \/ Capture
    \/ AfterCapture
    \/ Unwind
    \/ WaitForSsh
    \/ GetApi
    \/ HostActivateRequest
    \/ HostActivatePoll
    \/ SdActivateRequest
    \/ SdActivatePoll
    \/ EnvConvergeSd
    \/ EnvConvergeHost
    \/ DeployStartAll
    \/ \E k \in 1..Len(VmList) : DeployHost(k)
    \/ CollectStartAll
    \/ \E k \in 1..Len(VmList) : CollectArtifacts(k)
    \/ BatchJoinAll

Spec == Init /\ [][Next]_vars

\* ------------------------------------------------------------------ stop
\* stop, line 453, and _deactivate, lines 443-445: get_api returns the api
\* or raises, and _deactivate_all_storage_domains is entered
CallStop ==
    /\ pc = "start"
    /\ op.name = "stop"
    /\ \/ /\ pc' = "sd_deact_req"
          /\ dcIdx' = 1
          /\ pass' = 1
          /\ i' = 1
          /\ UNCHANGED excVars
       \/ /\ Raise("ApiError")
          /\ UNCHANGED <<dcIdx, pass, i>>
    /\ UNCHANGED <<op, batchVars, tryVars,
                   rollback, envVars, vmsUp, polls, queue, rejectsLeft,
                   wpc, obsVars, pre>>

\* stop, line 454: the parent's stop powers the virtual machines off, and
\* their services stop with them, or raises
ParentStop ==
    /\ pc = "parent_stop"
    /\ \/ /\ vmsUp' = FALSE
          /\ engineSvc' = FALSE
          /\ vdsmd' = [h \in Hosts |-> FALSE]
          /\ supervdsmd' = [h \in Hosts |-> FALSE]
          /\ pc' = "done"
          /\ UNCHANGED excVars
       \/ /\ Raise("ParentError")
          /\ UNCHANGED <<vmsUp, engineSvc, vdsmd, supervdsmd>>
    /\ UNCHANGED <<op, batchVars, tryVars, rollback, sdState, hostState,
                   loopVars, rejectsLeft, wpc, obsVars, pre>>

InitStop ==
    /\ op = [name |-> "stop", restore |-> FALSE]
    /\ InitRunning

NextStop ==
    \/ CallStop
    \/ SdDeactivateRequest
    \/ SdDeactivatePoll
    \/ HostDeactivateRequest
    \/ HostDeactivatePoll
    \/ ParentStop
    \/ EnvConvergeSd
    \/ EnvConvergeHost

\* the calling thread keeps running and the engine completes every
\* transition it has accepted
SpecStop ==
    /\ InitStop
    /\ [][NextStop]_vars
    /\ WF_vars(CallStop)
    /\ WF_vars(SdDeactivateRequest)
    /\ WF_vars(SdDeactivatePoll)
    /\ WF_vars(HostDeactivateRequest)
    /\ WF_vars(HostDeactivatePoll)
    /\ WF_vars(ParentStop)
    /\ WF_vars(EnvConvergeSd)
    /\ WF_vars(EnvConvergeHost)

\* ------------------------------------------------- start, revert_snapshots
\* the prefix after stop(): machines off, the engine's last record of every
\* host and storage domain is maintenance
StoppedEnv ==
    /\ sdState = [s \in SDs |-> "maintenance"]
    /\ hostState = [h \in Hosts |-> "maintenance"]
    /\ engineSvc = FALSE
    /\ vdsmd = [h \in Hosts |-> FALSE]
    /\ supervdsmd = [h \in Hosts |-> FALSE]
    /\ vmsUp = FALSE

\* start, line 449: the parent's start boots the virtual machines, whose
\* services start with them, or raises; _activate is entered next
CallStart ==
    /\ pc = "start"
    /\ op.name = "start"
    /\ \/ /\ vmsUp' = TRUE
          /\ engineSvc' = TRUE
          /\ vdsmd' = [h \in Hosts |-> TRUE]
          /\ supervdsmd' = [h \in Hosts |-> TRUE]
          /\ returned' = returned \cup {"super.start"}
          /\ pc' = "wait_ssh"
          /\ UNCHANGED <<excVars, sdState, hostState>>
       \/ /\ Raise("ParentError")
          /\ UNCHANGED <<envVars, vmsUp, returned>>
    /\ UNCHANGED <<op, batchVars, tryVars, rollback, loopVars, rejectsLeft,
                   wpc, captured, undoRuns, sdReqd, sdPolled, sdRejected,
                   actReqs, actRejected, deactAcc, pre>>

\* revert_snapshots, line 254: the parent's revert puts the machines back
\* in the captured state (taken with every host and storage domain in
\* maintenance) with their services running, or raises; _activate is
\* entered next
CallRevertSnapshots ==
    /\ pc = "start"
    /\ op.name = "revert_snapshots"
    /\ \/ /\ sdState' = [s \in SDs |-> "maintenance"]
          /\ hostState' = [h \in Hosts |-> "maintenance"]
          /\ vmsUp' = TRUE
          /\ engineSvc' = TRUE
          /\ vdsmd' = [h \in Hosts |-> TRUE]
          /\ supervdsmd' = [h \in Hosts |-> TRUE]
          /\ returned' = returned \cup {"super.revert_snapshots"}
          /\ pc' = "wait_ssh"
          /\ UNCHANGED excVars
       \/ /\ Raise("ParentError")
          /\ UNCHANGED <<envVars, vmsUp, returned>>
    /\ UNCHANGED <<op, batchVars, tryVars, rollback, loopVars, rejectsLeft,
                   wpc, captured, undoRuns, sdReqd, sdPolled, sdRejected,
                   actReqs, actRejected, deactAcc, pre>>

\* stop is called on a running environment, some of whose hosts may reject
\* every deactivation; start on a stopped one; revert_snapshots on a
\* running one
InitLifecycle ==
    /\ \/ /\ op = [name |-> "stop", restore |-> FALSE]
          /\ RunningEnv
          /\ rejectsLeft \in [Hosts -> {MaxRejects, Forever}]
       \/ /\ op = [name |-> "start", restore |-> FALSE]
          /\ StoppedEnv
          /\ rejectsLeft = [h \in Hosts |-> 0]
       \/ /\ op = [name |-> "revert_snapshots", restore |-> FALSE]
          /\ RunningEnv
          /\ rejectsLeft = [h \in Hosts |-> 0]
    /\ InitControl

NextLifecycle ==
    \/ CallStop
    \/ SdDeactivateRequest
    \/ SdDeactivatePoll
    \/ HostDeactivateRequest
    \/ HostDeactivatePoll
    \/ ParentStop
    \/ CallStart
    \/ CallRevertSnapshots
    \/ WaitForSsh
    \/ GetApi
    \/ HostActivateRequest
    \/ HostActivatePoll
    \/ SdActivateRequest
    \/ SdActivatePoll
    \/ EnvConvergeSd
    \/ EnvConvergeHost

SpecLifecycle == InitLifecycle /\ [][NextLifecycle]_vars

\* ------------------------------------------------------------ prepare_repo
\* the jobs prepare_repo makes for its arguments o, in the order of lines
\* 306-358; a job writes to the directory `out`
RepoJobs(o) ==
    (IF o.rpm_repo /\ o.reposync_yum_config /\ ~o.skip_sync
     THEN <<Job("_sync_rpm_repository", "reposync_yum_config", "rpm_repo")>>
     ELSE <<>>)
    \o (IF o.vdsm_dir /\ HostList /= <<>>
        THEN <<Job("_build_vdsm_rpms", "vdsm_dir", "build_dir(vdsm)")>>
        ELSE <<>>)
    \o (IF o.engine_dir /\ o.engine_vm
        THEN <<Job("_build_engine_rpms", "engine_dir", "build_dir(ovirt-engine)")>>
        ELSE <<>>)
    \o (IF o.vdsm_jsonrpc_java_dir /\ o.engine_vm
        THEN <<Job("_build_engine_rpms", "engine_dir", "build_dir(ovirt-engine)")>>
        ELSE <<>>)

\* what reading the yum configuration can raise, lines 307-309: open
\* raises IOError; readfp raises MissingSectionHeaderError on a line before
\* any section header and ParsingError on a line that is no option
ConfigReadErrors == {"IOError", "MissingSectionHeaderError", "ParsingError"}

\* prepare_repo, lines 292-360: the distributions are read, the yum
\* configuration is opened and parsed if a repository is to be synced and
\* the job list is made
RepoBuildJobs ==
    /\ pc = "start"
    /\ op.name = "prepare_repo"
    /\ \/ /\ jobs' = RepoJobs(op)
          /\ jst' = [k \in 1..Len(RepoJobs(op)) |-> "new"]
          /\ pc' = "repo_start_all"
          /\ UNCHANGED excVars
       \/ /\ op.rpm_repo /\ op.reposync_yum_config
          /\ \E e \in ConfigReadErrors : Raise(e)
          /\ UNCHANGED <<jobs, jst>>
    /\ UNCHANGED <<op, metadata, tryVars, vmsUp, rollback, envVars, loopVars,
                   rejectsLeft, wpc, obsVars, pre>>

\* prepare_repo, line 361: vt.start_all() starts one thread per job
RepoStartAll ==
    /\ pc = "repo_start_all"
    /\ jst' = [k \in 1..Len(jobs) |-> "running"]
    /\ pc' = "revisions"
    /\ UNCHANGED <<op, jobs, metadata, tryVars, vmsUp, excVars, rollback,
                   envVars, loopVars, rejectsLeft, wpc, obsVars, pre>>

\* a bug: join_all is not called, the merge follows the revision queries
AfterRevisionsMerge == "merge"

\* prepare_repo, line 366: vt.join_all() follows the revision queries
AfterRevisions == "batch_join"

\* prepare_repo, lines 362-363: the git revision of engine_dir, if given,
\* is put in the metadata (_git_revision_at does not raise: it returns
\* 'unknown' when git fails); the job threads run meanwhile
GitRevisionEngine ==
    /\ pc = "revisions"
    /\ metadata' = metadata
          \cup (IF op.engine_dir THEN {"ovirt-engine-revision"} ELSE {})
    /\ pc' = "rev_vdsm"
    /\ UNCHANGED <<op, jobs, jst, tryVars, vmsUp, excVars, rollback, envVars,
                   loopVars, rejectsLeft, wpc, obsVars, pre>>

\* prepare_repo, lines 364-365: the git revision of vdsm_dir, if given, is
\* put in the metadata
GitRevisionVdsm ==
    /\ pc = "rev_vdsm"
    /\ metadata' = metadata
          \cup (IF op.vdsm_dir THEN {"vdsm-revision"} ELSE {})
    /\ pc' = AfterRevisions
    /\ UNCHANGED <<op, jobs, jst, tryVars, vmsUp, excVars, rollback, envVars,
                   loopVars, rejectsLeft, wpc, obsVars, pre>>

\* the thread of job k of prepare_repo: _sync_rpm_repository (lines 48-68)
\* or _build_rpms (lines 71-99) runs an external command and returns, or
\* raises when the command failed
RepoJob(k) ==
    /\ k \in 1..Len(jobs)
    /\ jobs[k].fn \in {"_sync_rpm_repository", "_build_vdsm_rpms",
                       "_build_engine_rpms"}
    /\ jst[k] = "running"
    /\ \E next \in {"ok", "failed"} : jst' = [jst EXCEPT ![k] = next]
    /\ UNCHANGED <<op, jobs, metadata, tryVars, vmsUp, pc, excVars, rollback,
                   envVars, loopVars, rejectsLeft, wpc, obsVars, pre>>

\* prepare_repo, line 368, and _create_rpm_repository, lines 257-279: the
\* build outputs and the synced repositories are merged, which can fail
CreateRpmRepository ==
    /\ pc = "merge"
    /\ \/ /\ returned' = returned \cup {"_create_rpm_repository"}
          /\ pc' = "save"
          /\ UNCHANGED excVars
       \/ /\ Raise("MergeError")
          /\ UNCHANGED returned
    /\ UNCHANGED <<op, batchVars, tryVars, vmsUp, rollback, envVars, loopVars,
                   rejectsLeft, wpc, captured, undoRuns, sdReqd, sdPolled,
                   sdRejected, actReqs, actRejected, deactAcc, pre>>

\* prepare_repo, line 369: self.save() writes the prefix to disk, or raises
Save ==
    /\ pc = "save"
    /\ \/ /\ returned' = returned \cup {"save"}
          /\ pc' = "done"
          /\ UNCHANGED excVars
       \/ /\ Raise("SaveError")
          /\ UNCHANGED returned
    /\ UNCHANGED <<op, batchVars, tryVars, vmsUp, rollback, envVars,
                   loopVars, rejectsLeft, wpc, captured, undoRuns, sdReqd,
                   sdPolled, sdRejected, actReqs, actRejected, deactAcc, pre>>

\* the arguments of prepare_repo, each given or not, and whether the
\* prefix has an engine vm
RepoOps ==
    {[name |-> "prepare_repo", restore |-> FALSE, rpm_repo |-> a,
      reposync_yum_config |-> b, skip_sync |-> c, vdsm_dir |-> d,
      engine_dir |-> e, vdsm_jsonrpc_java_dir |-> f, engine_vm |-> g] :
        a \in BOOLEAN, b \in BOOLEAN, c \in BOOLEAN, d \in BOOLEAN,
        e \in BOOLEAN, f \in BOOLEAN, g \in BOOLEAN}

\* the longest job list prepare_repo can make: every argument given
MaxRepoJobs ==
    Len(RepoJobs([rpm_repo |-> TRUE, reposync_yum_config |-> TRUE,
                  skip_sync |-> FALSE, vdsm_dir |-> TRUE, engine_dir |-> TRUE,
                  vdsm_jsonrpc_java_dir |-> TRUE, engine_vm |-> TRUE]))

\* prepare_repo is called on a prefix whose machines are not started
InitRepo ==
    /\ op \in RepoOps
    /\ StoppedEnv
    /\ rejectsLeft = [h \in Hosts |-> 0]
    /\ InitControl

NextRepo ==
    \/ RepoBuildJobs
    \/ RepoStartAll
    \/ GitRevisionEngine
    \/ GitRevisionVdsm
    \/ \E k \in 1..MaxRepoJobs : RepoJob(k)
    \/ BatchJoinAll
    \/ CreateRpmRepository
    \/ Save

SpecRepo == InitRepo /\ [][NextRepo]_vars

\* ================================================================ claims
\* C1: when a failure of the disk snapshot capture reaches the caller of
\* create_snapshots, the environment is in the state it was in before the
\* call (services running, hosts up, storage domains active).
C1_AbortRestoresState ==
    (pc = "done" /\ exc = "CaptureError") => (EnvState = pre /\ Running)

\* C2: when a failure of a forward step of create_snapshots (a storage
\* domain or host deactivation, the engine service stop, a vdsmd or
\* supervdsmd stop) reaches the caller, and no compensating action failed,
\* whatever the transaction had deactivated or stopped is back: the storage
\* domains are active if their deactivation had completed, the hosts are up
\* if theirs had, and every service runs.
C2_NeverPartiallyQuiesced ==
    (/\ pc = "done"
     /\ InRollbackContext
     /\ exc \in {"ApiError", "RequestError", "AssertionError",
                 "EngineStopError", "JobError"}
     /\ ~undoFailed)
        => /\ "_deactivate_all_storage_domains" \in returned
                  => \A s \in SDs : sdState[s] = "active"
           /\ "_deactivate_all_hosts" \in returned
                  => \A h \in Hosts : hostState[h] = "up"
           /\ engineSvc
           /\ \A h \in Hosts : vdsmd[h] /\ supervdsmd[h]

\* C3: when the disk snapshot capture starts, every storage domain and every
\* host is in maintenance, the engine service is stopped, vdsmd and
\* supervdsmd are stopped on every host and every stop job is joined.
C3_CaptureOnlyWhenQuiesced ==
    pc = "capture" => (Quiesced /\ \A h \in Hosts : wpc[h] = "joined")

C3_Witness == pc = "capture" /\ Quiesced /\ captured = 0

\* C4: create_snapshots(name, restore=True) in which nothing fails ends with
\* the environment running as before the call and exactly one capture made.
C4_RestoreEndsRunning ==
    /\ captured <= 1
    /\ (/\ pc = "done"
        /\ InRollbackContext
        /\ op.restore
        /\ exc = "none"
        /\ ~undoFailed)
           => (Running /\ EnvState = pre /\ captured = 1)

C4_Witness ==
    /\ pc = "done"
    /\ InRollbackContext
    /\ op.restore
    /\ exc = "none"
    /\ ~undoFailed
    /\ Running
    /\ captured = 1

\* C5: create_snapshots(name, restore=False) in which every step succeeds
\* runs no registered undo: nothing is restarted, no activate request is
\* issued, and the environment is left quiesced.
C5_NoRestoreLeavesQuiesced ==
    (/\ pc \in {"unwind", "done"}
     /\ InRollbackContext
     /\ ~op.restore
     /\ exc = "none")
        => /\ rollback = <<>>
           /\ undoRuns = 0
           /\ ~undoFailed
           /\ \A h \in Hosts : actReqs[h] = 0
           /\ \A s \in SDs : <<"activate", s>> \notin sdReqd
           /\ Quiesced
           /\ captured = 1

C5_Witness ==
    /\ pc = "done"
    /\ InRollbackContext
    /\ ~op.restore
    /\ exc = "none"
    /\ Quiesced
    /\ captured = 1

\* the storage domains of data center dc
SdsOf(dc) == {s \in SDs : s[1] = dc}

\* in every data center, an active non-master has an active master
MasterActiveWhenNeeded ==
    \A dc \in DCs :
        (\E s \in SdsOf(dc) : ~IsMaster(s) /\ sdState[s] = "active")
            => \A m \in SdsOf(dc) : IsMaster(m) => sdState[m] = "active"

\* the step issues request `kind` to storage domain s
Requests(kind, s) == <<kind, s>> \notin sdReqd /\ <<kind, s>> \in sdReqd'

\* C6: in every state, in every data center, if a non-master storage domain
\* is active then the master is active; and in every step, an activate
\* request goes to a non-master only when the master of its data center is
\* active, a deactivate request goes to a master only when every non-master
\* of its data center is in maintenance.
C6_MasterDomainInvariant ==
    /\ []MasterActiveWhenNeeded
    /\ [][\A s \in SDs :
            /\ (Requests("activate", s) /\ ~IsMaster(s))
                  => \A m \in SdsOf(s[1]) : IsMaster(m) => sdState[m] = "active"
            /\ (Requests("deactivate", s) /\ IsMaster(s))
                  => \A n \in SdsOf(s[1]) :
                        ~IsMaster(n) => sdState[n] = "maintenance"]_vars

C6_Witness ==
    \E dc \in DCs :
        /\ \A m \in SdsOf(dc) : IsMaster(m) =>
              (sdState[m] = "active" /\ <<"deactivate", m>> \in sdReqd)
        /\ \E s \in SdsOf(dc) : ~IsMaster(s) /\ sdState[s] = "active"
        /\ \E s \in SdsOf(dc) : ~IsMaster(s) /\ sdState[s] = "maintenance"

\* C7: once _deactivate_all_hosts is in its request loop, with every host
\* rejecting at most MaxRejects requests, eventually every host has had a
\* deactivate request accepted and is in maintenance.
C7_HostDeactivationConverges ==
    (pc = "host_deact_req")
        ~> (\A h \in Hosts : deactAcc[h] >= 1 /\ hostState[h] = "maintenance")

C7_Witness ==
    /\ pc = "host_deact_req"
    /\ queue = <<>>
    /\ \E h \in Hosts : rejectsLeft[h] < MaxRejects
    /\ \A h \in Hosts : deactAcc[h] = 1 /\ hostState[h] = "maintenance"

\* what holds of the requests of _activate_all_hosts in every state
ActivateRequestsInOrder ==
    /\ \A h \in Hosts : actReqs[h] <= 1
    /\ pc = "host_act_req" =>
          /\ \A h \in Hosts : actReqs[h] = IF h < i THEN 1 ELSE 0
          /\ actRejected \subseteq {h \in Hosts : h < i}
    /\ pc = "host_act_poll" => \A h \in Hosts : actReqs[h] = 1
    /\ "_activate_all_hosts" \in returned => \A h \in Hosts : hostState[h] = "up"

\* C8: _activate_all_hosts sends each host one activate request, in list
\* order, whether or not earlier requests were rejected; the step in which a
\* request is rejected raises nothing and stays in the request loop; the
\* polls start once every host has been sent its request; and the function
\* returns only when every host, a rejected one included, has been seen up.
C8_ActivateHostsBestEffort ==
    /\ []ActivateRequestsInOrder
    /\ [][actRejected' /= actRejected
             => /\ pc' = "host_act_req"
                /\ i' = i + 1
                /\ exc' = exc
                /\ undoFailed' = undoFailed]_vars

C8_Witness ==
    /\ pc = "host_act_poll"
    /\ 1 \in actRejected
    /\ \A h \in Hosts : actReqs[h] = 1
    /\ \E h \in Hosts : h \notin actRejected /\ hostState[h] = "activating"

\* the direction of the storage domain request that was rejected: a
\* RequestError reaches the caller from a deactivation only, the
\* activations of create_snapshots being part of a compensating action
RejectedKind == IF exc = "RequestError" THEN "deactivate" ELSE "activate"

\* the group whose request loop the rejection left
RejectedGroup ==
    IF RejectedKind = "deactivate" THEN DeactGroup(dcIdx, pass)
                                   ELSE ActGroup(dcIdx, pass)

\* the storage domains the loops would have reached after the rejected one
AfterRejected ==
    {RejectedGroup[k] : k \in (i + 1)..Len(RejectedGroup)}
      \cup (IF pass = 1
            THEN {s \in SdsOf(dcIdx) : \A k \in 1..Len(RejectedGroup) :
                                           RejectedGroup[k] /= s}
            ELSE {})
      \cup {s \in SDs : s[1] > dcIdx}

\* C9: once a storage domain request has been rejected, the failure has
\* left the controller (it propagates to the caller, or is recorded as the
\* failure of the compensating action), no domain of the group has been
\* polled, and no later domain, group or data center has been sent a request
\* of that direction; and nothing is requested or polled afterwards.
C9_SdRequestFailurePropagates ==
    /\ [](sdRejected =>
            /\ pc \in {"unwind", "done"}
            /\ exc = "RequestError" \/ undoFailed
            /\ \A k \in 1..Len(RejectedGroup) :
                  <<RejectedKind, RejectedGroup[k]>> \notin sdPolled
            /\ \A s \in AfterRejected : <<RejectedKind, s>> \notin sdReqd)
    /\ [][sdRejected => (sdReqd' = sdReqd /\ sdPolled' = sdPolled)]_vars

C9_Witness ==
    /\ sdRejected
    /\ pc = "done"
    /\ dcIdx = 1
    /\ pass = 1
    /\ i = 1
    /\ AfterRejected = SDs \ {RejectedGroup[1]}

\* C10: when _deactivate_all_storage_domains has returned and no activation
\* has been requested yet, every storage domain is in maintenance; when
\* _activate_all_storage_domains has returned after it, every storage
\* domain is in the state it had before (active).
C10_SdRoundTrip ==
    /\ ("_deactivate_all_storage_domains" \in returned
          /\ \A s \in SDs : <<"activate", s>> \notin sdReqd)
          => \A s \in SDs : sdState[s] = "maintenance"
    /\ "_activate_all_storage_domains" \in returned
          => (sdState = pre.sd /\ \A s \in SDs : sdState[s] = "active")

C10_Witness ==
    /\ "_deactivate_all_storage_domains" \in returned
    /\ "_activate_all_storage_domains" \in returned
    /\ \A s \in SDs : <<"deactivate", s>> \in sdReqd /\ <<"activate", s>> \in sdReqd
    /\ sdState = pre.sd

\* C11: a batch handed to start_all/join_all has no cancellation.  When
\* the caller leaves join_all, every job of the batch (one per host vm in
\* create_snapshots, one per vm in deploy and in collect_artifacts) has
\* ended, finished or failed,
\* and the caller gets JobError exactly when some job failed; a job that
\* has ended never runs again; and while the caller waits, every job that
\* has not ended can still take its next step, whatever its siblings did.
C11_NoCancellation ==
    /\ [][pc = "join_all" /\ pc' /= "join_all"
            => /\ \A h \in Hosts : wpc[h] \in {"finished", "failed"}
               /\ (exc' = "JobError") <=> (\E h \in Hosts : wpc[h] = "failed")
               /\ (pc' = "capture") <=> (\A h \in Hosts : wpc[h] = "finished")]_vars
    /\ [][pc = "batch_join" /\ pc' /= "batch_join"
            => /\ Len(jobs) = Len(VmList)
               /\ \A k \in 1..Len(jobs) : jobs[k].arg = VmList[k]
               /\ \A k \in 1..Len(jobs) : jst[k] \in {"ok", "failed"}
               /\ (exc' = "JobError")
                     <=> (\E k \in 1..Len(jobs) : jst[k] = "failed")]_vars
    /\ [][/\ \A h \in Hosts : wpc[h] \in {"finished", "failed", "joined"}
                                 => wpc'[h] \in {wpc[h], "joined"}
          /\ \A k \in 1..Len(jobs) : jst[k] \in {"ok", "failed"}
                                 => jst'[k] = jst[k]]_vars
    /\ [](/\ pc = "join_all" =>
                \A h \in Hosts : wpc[h] \notin {"finished", "failed"}
                                    => ENABLED StopHost(h)
          /\ pc = "batch_join" =>
                \A k \in 1..Len(jobs) : jst[k] \notin {"ok", "failed"}
                                    => ENABLED (DeployHost(k)
                                                  \/ CollectArtifacts(k)))

\* the job of the first host failed at its first step and the job of the
\* second host still ran to its end before JobError reached the caller
C11_Witness ==
    /\ op.name = "create_snapshots"
    /\ exc = "JobError"
    /\ vdsmd[1] /\ supervdsmd[1]
    /\ ~vdsmd[2] /\ ~supervdsmd[2]
    /\ wpc[2] = "joined"

\* the worker threads that are inside a call of rollback.prependDefer
Pushing == {h \in Hosts : wpc[h] \in {"push_vdsmd", "push_supervdsmd"}}

\* C12: the rollback stack of create_snapshots is never mutated
\* concurrently: at no time are two threads inside a push onto it.
C12_NoConcurrentPush == Cardinality(Pushing) <= 1

\* the place of a compensating action in the forward order of
\* create_snapshots: _activate is registered first, the host service starts
\* last
Rank(u) ==
    CASE u.fn = "_activate" -> 0
      [] u.fn = "get_api" -> 1
      [] u.fn = "engine_start" -> 2
      [] OTHER -> 3

\* head first, the stack holds the host service starts (for each host the
\* supervdsmd start above the vdsmd start), then the engine service start,
\* then get_api, then _activate
StackInUnwindOrder(st) ==
    /\ \A p, q \in 1..Len(st) : p < q => Rank(st[p]) >= Rank(st[q])
    /\ \A p, q \in 1..Len(st) :
          (st[p].fn = "vdsmd_start" /\ st[q].fn = "supervdsmd_start"
             /\ st[p].h = st[q].h) => q < p

\* the activate requests issued so far
ActivateRequests ==
    <<{h \in Hosts : actReqs[h] > 0},
      {s \in SDs : <<"activate", s>> \in sdReqd}>>

\* C13: the rollback stack of create_snapshots always holds, head first,
\* the host service starts (supervdsmd before vdsmd for each host), then the
\* engine service start, then the API reconnect, then the reactivation; the
\* unwind always runs the head of the stack, so a service is started only by
\* the entry at the head, the engine service only when no host service start
\* is left; an activate request is issued only when the stack is empty and
\* the engine service runs; and a storage domain is sent an activate request
\* only after _activate_all_hosts has returned.
C13_UnwindInReverseOrder ==
    /\ [](StackInUnwindOrder(rollback))
    /\ [][undoRuns' /= undoRuns
            => /\ unwinding
               /\ rollback /= <<>>
               /\ rollback' = Tail(rollback)
               /\ undoRuns' = undoRuns + 1]_vars
    /\ [][/\ (engineSvc' /\ ~engineSvc)
               => /\ Head(rollback).fn = "engine_start"
                  /\ \A p \in 1..Len(rollback') : Rank(rollback'[p]) < 2
                  /\ undoRuns' = undoRuns + 1
          /\ \A h \in Hosts :
               /\ (vdsmd'[h] /\ ~vdsmd[h])
                    => /\ Head(rollback) = Undo("vdsmd_start", h)
                       /\ undoRuns' = undoRuns + 1
                       /\ \A p \in 1..Len(rollback') :
                             rollback'[p] /= Undo("supervdsmd_start", h)
               /\ (supervdsmd'[h] /\ ~supervdsmd[h])
                    => /\ Head(rollback) = Undo("supervdsmd_start", h)
                       /\ undoRuns' = undoRuns + 1]_vars
    /\ [][ActivateRequests' /= ActivateRequests
            => unwinding /\ rollback = <<>> /\ engineSvc]_vars
    /\ []((\E s \in SDs : <<"activate", s>> \in sdReqd)
             => "_activate_all_hosts" \in returned)

\* after a failed capture every service start and the reconnect have run,
\* the hosts have been reactivated and the storage domains are being sent
\* their activate requests
C13_Witness ==
    /\ exc = "CaptureError"
    /\ pc = "sd_act_req"
    /\ undoRuns = 2 * NumHosts + 3
    /\ engineSvc
    /\ \A h \in Hosts : vdsmd[h] /\ supervdsmd[h] /\ hostState[h] = "up"
    /\ \E s \in SDs : <<"activate", s>> \in sdReqd

\* C14: the unwind of create_snapshots is a best-effort full reversal: when
\* it ends no compensating action is left on the stack, whatever failed on
\* the way; and if the reactivation of the hosts failed (every host was sent
\* its activate request and _activate_all_hosts did not return), the storage
\* domains have still been sent their activate requests.
C14_ReactivationBestEffort ==
    (pc = "done" /\ unwinding)
       => /\ rollback = <<>>
          /\ ((\A h \in Hosts : actReqs[h] = 1)
                /\ "_activate_all_hosts" \notin returned)
               => \A s \in SDs : <<"activate", s>> \in sdReqd

\* the number of times host h stands in the local list of
\* _deactivate_all_hosts
InQueue(h) == Cardinality({p \in 1..Len(queue) : queue[p] = h})

\* C15: in _deactivate_all_hosts no host is ever accepted twice; during the
\* request loop a host stands in the list, once, exactly while it has not
\* been accepted; the polls start only when every host has been accepted
\* once; a rejection keeps the thread in the request loop with the list as
\* long as before; and while some host rejects every request, the polls are
\* never reached, the function never returns and no machine is powered off.
C15_HostRequestPhase ==
    /\ [](/\ \A h \in Hosts : deactAcc[h] <= 1
          /\ pc = "host_deact_req"
                => \A h \in Hosts : InQueue(h) = 1 - deactAcc[h]
          /\ pc = "host_deact_poll" => \A h \in Hosts : deactAcc[h] = 1
          /\ (\E h \in Hosts : rejectsLeft[h] = Forever)
                => /\ pc /= "host_deact_poll"
                   /\ "_deactivate_all_hosts" \notin returned
                   /\ vmsUp)
    /\ [][(pc = "host_deact_req" /\ queue /= <<>> /\ deactAcc' = deactAcc)
             => /\ pc' = "host_deact_req"
                /\ Len(queue') = Len(queue)
                /\ exc' = exc]_vars

\* the last host of the list rejects every request: every other host has
\* been accepted and the rejecting host is alone in the list, tried at least
\* once
C15_Witness ==
    /\ pc = "host_deact_req"
    /\ rejectsLeft[NumHosts] = Forever
    /\ queue = <<NumHosts>>
    /\ NumHosts \in tried
    /\ \A h \in Hosts \ {NumHosts} : deactAcc[h] = 1

\* the direction of the operation: stop deactivates, start and
\* revert_snapshots activate
TimedOutKind == IF op.name = "stop" THEN "deactivate" ELSE "activate"

\* the poll that timed out is a storage domain poll (otherwise a host poll)
TimedOutOnSd ==
    IF op.name = "stop"
    THEN "_deactivate_all_storage_domains" \notin returned
    ELSE "_activate_all_hosts" \in returned

\* the group whose poll loop the timeout left
TimedOutGroup ==
    IF TimedOutKind = "deactivate" THEN DeactGroup(dcIdx, pass)
                                   ELSE ActGroup(dcIdx, pass)

\* the storage domains of the groups that come after the group left
LaterGroups ==
    (IF pass = 1
     THEN {s \in SdsOf(dcIdx) : \A k \in 1..Len(TimedOutGroup) :
                                    TimedOutGroup[k] /= s}
     ELSE {})
      \cup {s \in SDs : s[1] > dcIdx}

\* C16: a convergence timeout is a hard failure.  Once a poll has timed
\* out the operation has ended with the AssertionError at its caller; if it
\* was a storage domain poll, the domains after it in its group have not
\* been polled and no domain of a later group or data center has been sent a
\* request, and in stop no host has been sent one; if it was a host poll of
\* start or revert_snapshots, no storage domain has been sent a request; in
\* stop the machines are still powered on; and nothing is requested, polled
\* or powered off afterwards.  Conversely a function returns, and stop
\* powers the machines off, only with every entity it waited for in its
\* target state.
C16_TimeoutIsHardFailure ==
    /\ [](exc = "AssertionError" =>
            /\ pc = "done"
            /\ op.name = "stop" => vmsUp
            /\ TimedOutOnSd =>
                 /\ \A k \in (i + 1)..Len(TimedOutGroup) :
                       <<TimedOutKind, TimedOutGroup[k]>> \notin sdPolled
                 /\ \A s \in LaterGroups : <<TimedOutKind, s>> \notin sdReqd
                 /\ tried = {}
            /\ (~TimedOutOnSd /\ op.name /= "stop") => sdReqd = {})
    /\ [][exc = "AssertionError" =>
            UNCHANGED <<pc, loopVars, sdReqd, sdPolled, actReqs, deactAcc,
                        tried, returned, vmsUp>>]_vars
    /\ [](/\ (op.name = "stop" /\ ~vmsUp) =>
                /\ \A s \in SDs : sdState[s] = "maintenance"
                /\ \A h \in Hosts : hostState[h] = "maintenance"
          /\ "_activate_all_hosts" \in returned =>
                \A h \in Hosts : hostState[h] = "up"
          /\ "_activate_all_storage_domains" \in returned =>
                \A s \in SDs : sdState[s] = "active")

\* stop: the first non-master domain of the first data center did not
\* reach maintenance in time; its master and the second data center were
\* sent nothing and the machines stay on
C16_Witness ==
    /\ op.name = "stop"
    /\ exc = "AssertionError"
    /\ pc = "done"
    /\ dcIdx = 1 /\ pass = 1 /\ i = 1
    /\ \E s \in SDs : <<"deactivate", s>> \in sdPolled
    /\ <<"deactivate", <<1, 1>>>> \notin sdReqd
    /\ vmsUp

\* C19: no host starves in the request loop of _deactivate_all_hosts.  The
\* first NumHosts requests go to NumHosts different hosts (the number of
\* hosts tried equals the number of requests sent, counted up to NumHosts),
\* because in the list every host already tried stands in front of every
\* host not yet tried, and pop() takes from the back.
C19_NoStarvation ==
    /\ Cardinality(tried) = attempts
    /\ pc = "host_deact_req" =>
          \A p, q \in 1..Len(queue) :
             (p < q /\ queue[q] \in tried) => queue[p] \in tried

\* the host popped first rejects every request, and after NumHosts requests
\* every host has been tried and the first host of the list accepted
C19_Witness ==
    /\ pc = "host_deact_req"
    /\ rejectsLeft[NumHosts] = Forever
    /\ attempts = NumHosts
    /\ tried = Hosts
    /\ deactAcc[1] = 1
    /\ deactAcc[NumHosts] = 0

\* the parent's start or revert_snapshots has returned
ParentDone ==
    \/ op.name = "start" /\ "super.start" \in returned
    \/ op.name = "revert_snapshots" /\ "super.revert_snapshots" \in returned

\* C20: lifecycle ordering.  In stop a host is sent a deactivate request
\* only when _deactivate_all_storage_domains has returned with every storage
\* domain in maintenance, and the machines are powered off only when
\* _deactivate_all_hosts has returned too, with every host in maintenance
\* and no failure; a failed stop leaves them on.  In start and
\* revert_snapshots an activate request is issued only after the parent's
\* start or revert has returned, a storage domain is sent one only when
\* _activate_all_hosts has returned with every host up, and the step that
\* runs the parent issues no request itself.
C20_LifecycleOrdering ==
    /\ [](op.name = "stop" =>
            /\ tried /= {} =>
                 /\ "_deactivate_all_storage_domains" \in returned
                 /\ \A s \in SDs : sdState[s] = "maintenance"
            /\ ~vmsUp =>
                 /\ exc = "none"
                 /\ "_deactivate_all_storage_domains" \in returned
                 /\ "_deactivate_all_hosts" \in returned
                 /\ \A s \in SDs : sdState[s] = "maintenance"
                 /\ \A h \in Hosts : hostState[h] = "maintenance"
            /\ exc /= "none" => vmsUp)
    /\ [](op.name \in {"start", "revert_snapshots"} =>
            /\ (\E h \in Hosts : actReqs[h] > 0) => ParentDone
            /\ (\E s \in SDs : <<"activate", s>> \in sdReqd) =>
                 /\ ParentDone
                 /\ "_activate_all_hosts" \in returned
                 /\ \A h \in Hosts : hostState[h] = "up")
    /\ [][(op.name \in {"start", "revert_snapshots"} /\ pc = "start")
             => UNCHANGED <<actReqs, sdReqd>>]_vars

\* start has returned normally: the parent started the machines, then the
\* hosts and then the storage domains were activated
C20_Witness ==
    /\ op.name = "start"
    /\ pc = "done"
    /\ exc = "none"
    /\ ParentDone
    /\ vmsUp
    /\ "_activate_all_hosts" \in returned
    /\ "_activate_all_storage_domains" \in returned
    /\ \A s \in SDs : <<"activate", s>> \in sdReqd /\ sdState[s] = "active"

\* C17: the phases of prepare_repo.  Every job has been started when the
\* revision queries run and when join_all is called; the metadata is
\* written only by the revision queries, after start_all and before
\* join_all; the merge is entered, and the merge and the save return, only
\* when every job has ended without failure, the save after the merge; and
\* when a job failed, the caller gets JobError with neither merge nor save
\* performed.
C17_RepoPhases ==
    /\ [](op.name = "prepare_repo" =>
            /\ pc \in {"revisions", "rev_vdsm", "batch_join", "merge", "save"}
                 => \A k \in 1..Len(jobs) : jst[k] /= "new"
            /\ (pc \in {"merge", "save"} \/ returned /= {})
                 => \A k \in 1..Len(jobs) : jst[k] = "ok"
            /\ "save" \in returned => "_create_rpm_repository" \in returned
            /\ (pc = "done" /\ \E k \in 1..Len(jobs) : jst[k] = "failed")
                 => exc = "JobError" /\ returned = {})
    /\ [][metadata' /= metadata
            => /\ pc \in {"revisions", "rev_vdsm"}
               /\ pc' \in {"rev_vdsm", "batch_join"}
               /\ \A k \in 1..Len(jobs) : jst[k] /= "new"
               /\ returned = {}]_vars
    /\ [][returned' /= returned
            => \A k \in 1..Len(jobs) : jst[k] = "ok" /\ jst'[k] = "ok"]_vars

\* every argument was given: the jobs were started, both revisions were
\* recorded, one job ended well and another failed, and the failure reached
\* the caller with no merge and no save
C17_Witness ==
    /\ op.name = "prepare_repo"
    /\ Len(jobs) = MaxRepoJobs
    /\ pc = "done"
    /\ exc = "JobError"
    /\ metadata = {"ovirt-engine-revision", "vdsm-revision"}
    /\ jst[1] = "ok"
    /\ jst[2] = "failed"
    /\ returned = {}

\* C18: the jobs of one prepare_repo batch are independent: no two jobs
\* that run at the same time write to the same output directory.
C18_JobsIndependent ==
    \A j, k \in 1..Len(jobs) :
       (j /= k /\ jst[j] = "running" /\ jst[k] = "running")
          => jobs[j].out /= jobs[k].out

====
